---- MODULE Spec2Model ----
(***************************************************************************)
(* Semantic-analysis core of the language: module assembly                 *)
(* (old/module.rs), import resolution and struct resolution                *)
(* (typechecking/mod.rs).  Every operation is a pure operator over records *)
(* that mirror the Rust structures; the actions apply them to the state.   *)
(***************************************************************************)
EXTENDS Integers, Sequences, FiniteSets, TLC

VARIABLES
    theModule,   \* old/module.rs: the Module under assembly
    lastResult,  \* the value returned by the last push_statement / push_all
    parsed,      \* typechecking: the ModuleContext as the parser produced it
    context,     \* typechecking: the untyped ModuleContext
    typed,       \* typechecking: the TypecheckingContext (NoContext before new)
    errors,      \* typechecking: the error list handed to resolve_struct
    ret          \* typechecking: the last call made and what it returned

vars == <<theModule, lastResult, parsed, context, typed, errors, ret>>
modVars == <<theModule, lastResult>>
tcVars == <<parsed, context, typed, errors, ret>>

\* Option::None / an absent HashMap key, and Option::Some(v) / a present one
None == <<>>
Some(v) == <<v>>

\* no typechecking call made yet
NoCall == [op |-> "none"]

\* Identifiers (GlobalStr) the statements of a module are drawn from
ModNames == {"a", "b"}

\* name of the one method a struct statement may carry in an impl block
MethodName == "m"

\* cap on function_registry.len() (the Vec is unbounded in the code)
MaxRegistry == 2

\* longest batch handed to push_all
MaxBatch == 2

(***************************************************************************)
(* old/module.rs                                                           *)
(***************************************************************************)

EmptyMap == [n \in ModNames |-> None]

\* Module::new(imports)
ModuleNew(imports) ==
    [ structs            |-> EmptyMap,
      functions          |-> EmptyMap,
      external_functions |-> EmptyMap,
      static_values      |-> EmptyMap,
      function_registry  |-> <<>>,
      imports            |-> imports,
      exports            |-> EmptyMap ]

\* Module::push_fn: append to the registry, the id is the new last index
push_fn(m, contract) ==
    [ m  |-> [m EXCEPT !.function_registry = Append(@, contract)],
      id |-> Len(m.function_registry) ]

\* mutant of is_defined: the exports map counts as a binding table too
is_defined_with_exports(m, key) ==
    \/ m.imports[key] # None
    \/ m.functions[key] # None
    \/ m.structs[key] # None
    \/ m.static_values[key] # None
    \/ m.external_functions[key] # None
    \/ m.exports[key] # None

\* Module::is_defined
is_defined(m, key) ==
    \/ m.imports[key] # None
    \/ m.functions[key] # None
    \/ m.structs[key] # None
    \/ m.static_values[key] # None
    \/ m.external_functions[key] # None

Ok == [ok |-> TRUE]
Err(kind, name) == [ok |-> FALSE, kind |-> kind, name |-> name]

\* Statement::bake_functions / Function::bake: every function literal met is
\* pushed into the registry; `n` is how many the statement holds
RECURSIVE bake_functions(_, _)
bake_functions(m, n) ==
    IF n = 0 THEN m ELSE bake_functions(push_fn(m, "closure").m, n - 1)

\* number of registry slots a statement needs
Pushes(stmt) ==
    CASE stmt.kind = "Function" -> stmt.closures + 1
      [] stmt.kind = "Struct"   -> Cardinality(stmt.global_impl) + Cardinality(stmt.impls)
      [] OTHER                  -> 0

\* mutant of the Struct arm: the methods are baked before the name is checked
push_struct_baked_first(m, stmt) ==
    LET g == IF stmt.global_impl = {} THEN m ELSE push_fn(m, MethodName).m
        t == IF stmt.impls = {} THEN g ELSE push_fn(g, MethodName).m
    IN  IF is_defined(m, stmt.name)
        THEN [m |-> t, res |-> Err("IdentAlreadyDefined", Some(stmt.name))]
        ELSE [m |-> [t EXCEPT !.structs[stmt.name] =
                        Some([ name        |-> stmt.name,
                               global_impl |-> IF stmt.global_impl = {} THEN None
                                               ELSE Some(Len(m.function_registry)),
                               trait_impls |-> IF stmt.impls = {} THEN None
                                               ELSE Some(Len(g.function_registry)) ])],
              res |-> Ok]

\* the Statement::Struct arm of push_statement
push_struct(m, stmt) ==
    IF is_defined(m, stmt.name)
    THEN [m |-> m, res |-> Err("IdentAlreadyDefined", Some(stmt.name))]
    ELSE LET g  == IF stmt.global_impl = {} THEN m ELSE push_fn(m, MethodName).m
             gi == IF stmt.global_impl = {} THEN None ELSE Some(Len(m.function_registry))
             t  == IF stmt.impls = {} THEN g ELSE push_fn(g, MethodName).m
             ti == IF stmt.impls = {} THEN None ELSE Some(Len(g.function_registry))
             typ == [ name        |-> stmt.name,
                      global_impl |-> gi,
                      trait_impls |-> ti ]
         IN  [m |-> [t EXCEPT !.structs[stmt.name] = Some(typ)], res |-> Ok]

\* Module::push_statement
push_statement(m, stmt) ==
    CASE stmt.kind = "Function" ->
            IF stmt.name = None
            THEN [m |-> m, res |-> Err("AnonymousFunctionAtGlobalLevel", None)]
            ELSE LET name  == stmt.name[1]
                     baked == bake_functions(m, stmt.closures)
                     p     == push_fn(baked, name)
                 IN  [m |-> [p.m EXCEPT !.functions[name] = Some(p.id)], res |-> Ok]
      [] stmt.kind = "Struct" -> push_struct(m, stmt)
      [] stmt.kind = "Var" ->
            IF ~stmt.has_type
            THEN [m |-> m, res |-> Err("GlobalValueNoType", None)]
            ELSE IF is_defined(m, stmt.name)
            THEN [m |-> m, res |-> Err("IdentAlreadyDefined", Some(stmt.name))]
            ELSE IF stmt.literal
            THEN [m |-> [m EXCEPT !.static_values[stmt.name] = Some("literal")], res |-> Ok]
            ELSE [m |-> m, res |-> Err("GlobalValueNoLiteral", None)]
      [] stmt.kind = "ExternalFunction" ->
            IF stmt.name # None
            THEN LET name == stmt.name[1]
                 IN  IF is_defined(m, name)
                     THEN [m |-> m, res |-> Err("IdentAlreadyDefined", Some(name))]
                     ELSE [m |-> [m EXCEPT !.external_functions[name] = Some("contract")],
                           res |-> Ok]
            ELSE [m |-> m, res |-> Err("AnonymousFunctionAtGlobalLevel", None)]
      [] stmt.kind = "Export" ->
            IF ~is_defined(m, stmt.key)
            THEN [m |-> m, res |-> Err("IdentNotDefined", Some(stmt.key))]
            ELSE [m |-> [m EXCEPT !.exports[stmt.exported_key] = Some(stmt.key)], res |-> Ok]
      [] OTHER -> [m |-> m, res |-> Err("NoCodeOutsideOfFunctions", None)]

\* mutant of push_all: the batch is given up at the first failing statement
RECURSIVE push_all_first_error(_, _, _)
push_all_first_error(m, statements, errs) ==
    IF statements = <<>> THEN [m |-> m, res |-> Ok]
    ELSE LET r == push_statement(m, Head(statements))
         IN  IF r.res.ok THEN push_all_first_error(r.m, Tail(statements), errs)
             ELSE [m |-> r.m, res |-> [ok |-> FALSE, errors |-> <<r.res>>]]

\* Module::push_all: every statement is pushed, the errors are collected in order
RECURSIVE push_all(_, _, _)
push_all(m, statements, errs) ==
    IF statements = <<>>
    THEN [m |-> m, res |-> IF Len(errs) > 0 THEN [ok |-> FALSE, errors |-> errs] ELSE Ok]
    ELSE LET r == push_statement(m, Head(statements))
         IN  push_all(r.m, Tail(statements),
                      IF r.res.ok THEN errs ELSE Append(errs, r.res))

OptNames == {None} \cup {Some(n) : n \in ModNames}

\* the top-level statements the parser can hand over
Statements ==
    [kind : {"Function"}, name : OptNames, closures : {0, 1}]
    \cup [kind : {"Struct"}, name : ModNames, global_impl : {{}}, impls : {{}}]
    \cup [kind : {"Struct"}, name : ModNames, global_impl : {{MethodName}}, impls : {{"t"}}]
    \cup [kind : {"Var"}, name : ModNames, has_type : BOOLEAN, literal : BOOLEAN]
    \cup [kind : {"ExternalFunction"}, name : OptNames]
    \cup [kind : {"Export"}, key : ModNames, exported_key : ModNames]
    \cup [kind : {"Expression"}]

RECURSIVE TotalPushes(_)
TotalPushes(statements) ==
    IF statements = <<>> THEN 0
    ELSE Pushes(Head(statements)) + TotalPushes(Tail(statements))

\* the statements a batch is made of: one of each kind, failing ones included
BatchStatements ==
    { [kind |-> "Function", name |-> Some("a"), closures |-> 0],
      [kind |-> "Struct", name |-> "b", global_impl |-> {}, impls |-> {}],
      [kind |-> "Export", key |-> "a", exported_key |-> "b"],
      [kind |-> "Expression"] }

Batches == UNION {[1..n -> BatchStatements] : n \in 0..MaxBatch}

\* the preconfigured imports map: each name imported or not
ImportMaps == {EmptyMap, [EmptyMap EXCEPT !["b"] = Some("import")]}

PushStatement(stmt) ==
    /\ Len(theModule.function_registry) + Pushes(stmt) <= MaxRegistry
    /\ LET r == push_statement(theModule, stmt)
       IN  /\ theModule' = r.m
           /\ lastResult' = r.res
    /\ UNCHANGED tcVars

PushAll(batch) ==
    /\ Len(theModule.function_registry) + TotalPushes(batch) <= MaxRegistry
    /\ LET r == push_all(theModule, batch, <<>>)
       IN  /\ theModule' = r.m
           /\ lastResult' = r.res
    /\ UNCHANGED tcVars

IdleTypecheck ==
    /\ context = None
    /\ parsed = None
    /\ typed = None
    /\ errors = <<>>
    /\ ret = NoCall

InitModule ==
    /\ \E imports \in ImportMaps : theModule = ModuleNew(imports)
    /\ lastResult = None
    /\ IdleTypecheck

NextModule ==
    \/ \E stmt \in Statements : PushStatement(stmt)
    \/ \E batch \in Batches : PushAll(batch)

SpecModule == InitModule /\ [][NextModule]_vars

(***************************************************************************)
(* typechecking/mod.rs: values                                             *)
(***************************************************************************)

\* handles are the 0-based indices of the Rust vectors
At(vec, id) == vec[id + 1]

\* HashMap::get
Get(map, key) == IF key \in DOMAIN map THEN map[key] ELSE None

Max(a, b) == IF a >= b THEN a ELSE b

\* DUMMY_LOCATION: line 0, column 0, file ""
DUMMY_LOCATION == [line |-> 0, column |-> 0, file |-> ""]

\* a Location the tokenizer produces
Loc(line, column) == [line |-> line, column |-> column, file |-> "main.lang"]

\* ModuleScopeValue
Value(kind, id) == [kind |-> kind, id |-> id]
NoValue == Value("NoValue", 0)

\* TypecheckingError { location, name }
Error(kind, location, name) == [kind |-> kind, location |-> location, name |-> name]
NoError == Error("NoError", DUMMY_LOCATION, "")

\* cap on the depth of nested resolve_import calls the model follows
Fuel == 12

(***************************************************************************)
(* resolve_import.  `g` carries already_included (visited) through the     *)
(* calls, as the &mut Vec does, together with bookkeeping of the run:      *)
(* depth of the call stack, number of calls, number of CyclicDependency    *)
(* errors raised, whether context.structs.read() was taken, the pairs of   *)
(* the calls that have not returned yet (pending), and the number of       *)
(* CyclicDependency errors raised for a pair that is not pending (stale).  *)
(***************************************************************************)

NewRun == [visited |-> <<>>, depth |-> 0, maxdepth |-> 0, calls |-> 0,
           cyclic |-> 0, structs_read |-> FALSE, pending |-> <<>>, stale |-> 0]

RetOk(value, g) == [tag |-> "Ok", value |-> value, error |-> NoError, g |-> g]
RetErr(error, g) == [tag |-> "Err", value |-> NoValue, error |-> error, g |-> g]
\* a panic: index out of bounds, unreachable!()
RetPanic(what, g) ==
    [tag |-> "Panic", value |-> NoValue, error |-> Error(what, DUMMY_LOCATION, ""), g |-> g]
RetDiverged(g) == [tag |-> "Diverged", value |-> NoValue, error |-> NoError, g |-> g]

\* mutants of the visited check: only the pair pushed last is compared; no
\* pair is ever found
already_included_contains_last(visited, module, name) ==
    Len(visited) > 0 /\ visited[Len(visited)] = <<module, name>>

already_included_contains_never(visited, module, name) == FALSE

\* already_included.iter().find(|(mod_id, imp)| module.eq(mod_id) && import[0].eq(imp))
already_included_contains(visited, module, name) ==
    \E i \in 1..Len(visited) : visited[i] = <<module, name>>

\* mutant of the export lookup: no fall back to the name itself at depth < 2
export_ident_strict(exports, name, visited) == Get(exports, name)

\* the export lookup of resolve_import / typed_resolve_import: Some(ident), or
\* None for the ExportNotFound arm
export_ident(exports, name, visited) ==
    IF Get(exports, name) # None THEN Get(exports, name)
    ELSE IF Len(visited) < 2 THEN Some(name)
    ELSE None

\* the ModuleScopeValue::Struct arm: the next segment must be in global_impl
struct_member(ctx, id, import, location, too_long_location, g) ==
    LET reader == At(ctx.structs, id)
        gl     == [g EXCEPT !.structs_read = TRUE]
        fn     == Get(reader.global_impl, import[2])
    IN  IF fn # None
        THEN IF Len(import) < 3
             THEN RetOk(Value("Function", fn[1]), gl)
             ELSE RetErr(Error("ExportNotFound",
                               IF too_long_location = None
                               THEN At(ctx.functions, fn[1]).location
                               ELSE too_long_location[1],
                               import[3]), gl)
        ELSE RetErr(Error("ExportNotFound", reader.location, import[2]), gl)

RECURSIVE resolve_import(_, _, _, _, _)
RECURSIVE resolve_import_body(_, _, _, _, _)

resolve_import(ctx, module, import, location, g) ==
    LET r == resolve_import_body(ctx, module, import, location,
                 [g EXCEPT !.depth = @ + 1, !.calls = @ + 1,
                           !.maxdepth = Max(@, g.depth + 1)])
    IN  [r EXCEPT !.g.depth = g.depth, !.g.pending = g.pending]

resolve_import_body(ctx, module, import, location, g) ==
    IF g.depth > Fuel THEN RetDiverged(g)
    ELSE IF Len(import) < 1 THEN RetOk(Value("Module", module), g)
    ELSE IF already_included_contains(g.visited, module, import[1])
    THEN RetErr(Error("CyclicDependency", location, ""),
                [g EXCEPT !.cyclic = @ + 1,
                          !.stale = IF already_included_contains(g.pending, module, import[1])
                                    THEN @ ELSE @ + 1])
    ELSE
    LET g2     == [g EXCEPT !.visited = Append(@, <<module, import[1]>>),
                            !.pending = Append(@, <<module, import[1]>>)]
        reader == At(ctx.modules, module)
        found  == export_ident(reader.exports, import[1], g2.visited)
    IN  IF found = None
        THEN RetErr(Error("ExportNotFound", location, import[1]), g2)
        ELSE
        LET ident == found[1] IN
        IF Get(reader.imports, ident) # None
        THEN LET imp == Get(reader.imports, ident)[1]
                 sub == resolve_import(ctx, imp.module, imp.path, imp.location, g2)
             IN  IF sub.tag # "Ok" THEN sub
                 ELSE IF Len(import) < 2 THEN sub
                 ELSE CASE sub.value.kind = "Module" ->
                             resolve_import(ctx, sub.value.id, Tail(import), location, sub.g)
                        [] sub.value.kind = "Struct" ->
                             struct_member(ctx, sub.value.id, import, location, None, sub.g)
                        [] OTHER ->
                             RetErr(Error("ExportNotFound", location, import[2]), sub.g)
        ELSE IF Get(reader.scope, ident) # None
        THEN LET value == Get(reader.scope, ident)[1]
             IN  IF Len(import) < 2 THEN RetOk(value, g2)
                 ELSE CASE value.kind = "Struct" ->
                             struct_member(ctx, value.id, import, location, Some(location), g2)
                        [] value.kind = "Module" -> RetPanic("unreachable", g2)
                        [] OTHER ->
                             RetErr(Error("ExportNotFound", location, import[2]), g2)
        \* the last arm names import[1] (the second segment) whatever the length
        ELSE IF Len(import) < 2 THEN RetPanic("index out of bounds", g2)
        ELSE RetErr(Error("ExportNotFound", location, import[2]), g2)

(***************************************************************************)
(* TypecheckingContext::new and resolve_imports                            *)
(***************************************************************************)

EmptyScope == [n \in {} |-> None]

\* the placeholder TypedStruct new() fills the table with
DummyStruct(id) ==
    [ name        |-> "",
      elements    |-> <<>>,
      location    |-> DUMMY_LOCATION,
      global_impl |-> EmptyScope,
      trait_impl  |-> EmptyScope,
      annotations |-> "",
      module_id   |-> 0,
      generics    |-> <<>>,
      id          |-> id ]

DummyStatic == [typ |-> "PrimitiveNever", literal |-> "Void", module_id |-> 0,
                location |-> DUMMY_LOCATION]

DummyContract == [name |-> None, arguments |-> <<>>, return_type |-> "PrimitiveNever",
                  location |-> DUMMY_LOCATION, module_id |-> 0]

DummyTrait == [name |-> "", functions |-> <<>>, location |-> DUMMY_LOCATION,
               module_id |-> 0, id |-> 0]

\* the context a panicking constructor never returns
Panicked == [status |-> "panic"]

\* TypecheckingContext::new: one placeholder per untyped item, and the typed
\* copy of modules[module_id] for module_id = modules.len() = 0 only
new(ctx) ==
    IF Len(ctx.modules) = 0 THEN Panicked
    ELSE
    [ status             |-> "ok",
      structs            |-> [i \in 1..Len(ctx.structs) |-> DummyStruct(i - 1)],
      statics            |-> [i \in 1..Len(ctx.statics) |-> DummyStatic],
      functions          |-> [i \in 1..Len(ctx.functions) |-> DummyContract],
      external_functions |-> [i \in 1..Len(ctx.external_functions) |-> DummyContract],
      traits             |-> [i \in 1..Len(ctx.traits) |-> DummyTrait],
      modules            |-> << [ scope   |-> At(ctx.modules, 0).scope,
                                  exports |-> At(ctx.modules, 0).exports ] >> ]

\* HashMap::insert
Insert(map, key, value) ==
    [k \in DOMAIN map \cup {key} |-> IF k = key THEN Some(value) ELSE map[k]]

RECURSIVE resolve_module_imports(_, _, _, _, _)

\* match resolve_import(..) { Err(e) => errors.push(e), Ok(k) => scope.insert(name, k) }
import_resolved(ctx, t, id, names, errs, r) ==
    CASE r.tag = "Err" ->
            resolve_module_imports(ctx, t, id, Tail(names), Append(errs, r.error))
      [] r.tag = "Ok" ->
            resolve_module_imports(ctx,
                [t EXCEPT !.modules[id + 1].scope = Insert(@, Head(names), r.value)],
                id, Tail(names), errs)
      [] OTHER -> [typed |-> [t EXCEPT !.status = "panic"], errors |-> errs]

\* the import declaration visited
import_of(ctx, id, name) == At(ctx.modules, id).imports[name][1]

\* the inner loop of resolve_imports over the imports of module id, visited in
\* the order `names` (the iteration order of the HashMap); the call starts in
\* the module the declaration names, with an empty already_included
resolve_module_imports(ctx, t, id, names, errs) ==
    IF names = <<>> \/ t.status # "ok" THEN [typed |-> t, errors |-> errs]
    ELSE import_resolved(ctx, t, id, names, errs,
             resolve_import(ctx, import_of(ctx, id, Head(names)).module,
                            import_of(ctx, id, Head(names)).path,
                            import_of(ctx, id, Head(names)).location, NewRun))

RECURSIVE resolve_imports(_, _, _, _, _)

\* the next module of the outer loop
module_imports_resolved(ctx, id, order, r) ==
    resolve_imports(ctx, r.typed, id + 1, order, r.errors)

\* TypecheckingContext::resolve_imports: the modules of the typed table in
\* turn; order[id + 1] is the order the imports of module id are visited in
resolve_imports(ctx, t, id, order, errs) ==
    IF id >= Len(t.modules) \/ t.status # "ok" THEN [typed |-> t, errors |-> errs]
    ELSE module_imports_resolved(ctx, id, order,
             resolve_module_imports(ctx, t, id, order[id + 1], errs))

\* the orders a HashMap with these keys may be iterated in
Orders(keys) ==
    { o \in [1..Cardinality(keys) -> keys] : \A i, j \in DOMAIN o : o[i] = o[j] => i = j }

(***************************************************************************)
(* resolve_struct and type_resolution_resolve_type.  `s` is the state the  *)
(* calls share: the ModuleContext (interior mutability), the typed context,*)
(* the errors vector, and how the run ended: "ok", "panic", or "deadlock"  *)
(* when a lock is requested that the thread already holds exclusively.     *)
(***************************************************************************)

RESERVED_TYPE_NAMES ==
    {"str", "bool", "char", "void", "i8", "i16", "i32", "i64", "isize", "u8", "u16",
     "u32", "u64", "usize", "f16", "f32", "f64", "!"}

\* TypeRef::Reference { num_references, type_name, loc }: entries[i] is the
\* i-th path segment, a name and its generic arguments
Reference(num_references, entries, loc) ==
    [kind |-> "Reference", num_references |-> num_references, entries |-> entries, loc |-> loc]

Segment(name) == [name |-> name, generics |-> <<>>]

\* TypeRef::SizedArray { num_references, child, number_elements, loc }
SizedArray(num_references, child, number_elements, loc) ==
    [kind |-> "SizedArray", num_references |-> num_references, child |-> child,
     number_elements |-> number_elements, loc |-> loc]

\* Type::Primitive*: the variant is named by the reserved name
Primitive(name, num_references) ==
    [kind |-> "Primitive", name |-> name, num_references |-> num_references]

\* Type::Struct { struct_id, name, num_references }
StructType(struct_id, name, num_references) ==
    [kind |-> "Struct", struct_id |-> struct_id, name |-> name,
     num_references |-> num_references]

\* Type::Generic(name, num_references)
GenericType(name, num_references) ==
    [kind |-> "Generic", name |-> name, num_references |-> num_references]

\* Type::Trait { trait_refs, num_references, real_name }
TraitType(trait_refs, num_references, real_name) ==
    [kind |-> "Trait", trait_refs |-> trait_refs, num_references |-> num_references,
     real_name |-> real_name]

\* Type::SizedArray / Type::UnsizedArray
ArrayType(kind, typ, num_references, number_elements) ==
    [kind |-> kind, typ |-> typ, num_references |-> num_references,
     number_elements |-> number_elements]

\* resolve_primitive_type: a single unqualified reserved name, Void or Never
resolve_primitive_type(typ) ==
    CASE typ.kind = "Reference" ->
            IF /\ Len(typ.entries) = 1
               /\ typ.entries[1].generics = <<>>
               /\ typ.entries[1].name \in RESERVED_TYPE_NAMES
            THEN Some(Primitive(typ.entries[1].name, typ.num_references))
            ELSE None
      [] typ.kind = "Void"  -> Some(Primitive("void", typ.num_references))
      [] typ.kind = "Never" -> Some(Primitive("!", 0))
      [] OTHER -> None

\* mutant of the in-progress test: no struct is ever found in progress
is_in_progress_never(untyped_struct) == FALSE

\* writer[id].location == *DUMMY_LOCATION: resolve_struct took the struct's
\* location and has not committed it yet
is_in_progress(untyped_struct) == untyped_struct.location = DUMMY_LOCATION

\* the guards the thread holds (in the order taken), the number of nested
\* entries to resolve_struct, and whether one was made with a guard held
NoLocks == [held |-> <<>>, nested |-> 0, guarded |-> FALSE]

Running(ctx, t, errs) ==
    [ctx |-> ctx, typed |-> t, errors |-> errs, status |-> "ok", locks |-> NoLocks]

\* a guard is taken: self.structs.read(), context.structs.read() / .write()
acquire(s, guard) == [s EXCEPT !.locks.held = Append(@, guard)]

\* the guard taken last under this name goes out of scope or is dropped
release(s, guard) ==
    LET held == s.locks.held
        last == CHOOSE i \in 1..Len(held) :
                    held[i] = guard /\ \A j \in (i + 1)..Len(held) : held[j] # guard
    IN  IF \E i \in 1..Len(held) : held[i] = guard
        THEN [s EXCEPT !.locks.held = SubSeq(held, 1, last - 1)
                                          \o SubSeq(held, last + 1, Len(held))]
        ELSE s

\* `self.resolve_struct(context, id, module, errors)` is entered from
\* type_resolution_resolve_type
entered(s) ==
    [s EXCEPT !.locks.nested = @ + 1,
              !.locks.guarded = @ \/ s.locks.held # <<>>]

Push(s, error) == [s EXCEPT !.errors = Append(@, error)]

RECURSIVE resolve_bounds(_, _, _, _)

\* match resolve_import(..) of the bound loop; the call was made while
\* context.structs is held for writing, so one that reads context.structs
\* never returns
bound_resolved(s, module_id, bounds, acc, r) ==
    CASE r.g.structs_read ->
            [s |-> [s EXCEPT !.status = "deadlock"], bounds |-> acc]
      [] r.tag = "Err" ->
            resolve_bounds(Push(s, r.error), module_id, Tail(bounds), acc)
      [] r.tag = "Ok" /\ r.value.kind = "Trait" ->
            resolve_bounds(s, module_id, Tail(bounds), Append(acc, r.value.id))
      [] r.tag = "Ok" ->
            resolve_bounds(
                Push(s, Error("UnboundIdent", Head(bounds).loc,
                              Head(bounds).entries[Len(Head(bounds).entries)])),
                module_id, Tail(bounds), acc)
      [] OTHER -> [s |-> [s EXCEPT !.status = "panic"], bounds |-> acc]

\* for (bound, loc) in &generic.bounds
resolve_bounds(s, module_id, bounds, acc) ==
    IF bounds = <<>> \/ s.status # "ok" THEN [s |-> s, bounds |-> acc]
    ELSE bound_resolved(s, module_id, bounds, acc,
             resolve_import(s.ctx, module_id, Head(bounds).entries, Head(bounds).loc, NewRun))

RECURSIVE resolve_generics(_, _, _, _)

\* generics.push((generic.name.clone(), bounds))
generic_resolved(module_id, generics, acc, r) ==
    resolve_generics(r.s, module_id, Tail(generics),
        Append(acc, [name |-> Head(generics).name, bounds |-> r.bounds]))

\* for generic in &writer[id].generics
resolve_generics(s, module_id, generics, acc) ==
    IF generics = <<>> \/ s.status # "ok" THEN [s |-> s, generics |-> acc]
    ELSE generic_resolved(module_id, generics, acc,
             resolve_bounds(s, module_id, Head(generics).bounds, <<>>))

\* typed_struct.generics.iter().find(|(v, ..)| *v == *generic_name)
find_generic(generics, name) ==
    LET hits == {i \in 1..Len(generics) : generics[i].name = name}
    IN  IF hits = {} THEN None
        ELSE Some(generics[CHOOSE i \in hits : \A j \in hits : i <= j])

\* what the element loop stores for a resolved type: a generic with bounds
\* becomes Type::Trait
element_type(typ, generics) ==
    IF typ.kind = "Generic"
    THEN LET v == find_generic(generics, typ.name)
         IN  IF v # None /\ Len(v[1].bounds) > 0
             THEN TraitType(v[1].bounds, typ.num_references, typ.name)
             ELSE typ
    ELSE typ

RECURSIVE resolve_struct(_, _, _)
RECURSIVE resolve_elements(_, _, _, _)
RECURSIVE type_resolution_resolve_type(_, _, _, _)

\* Some(Type::Struct { struct_id, name, num_references }) of a committed struct
committed_type(typechecked_struct, num_references) ==
    Some(StructType(typechecked_struct.id, typechecked_struct.name, num_references))

\* after `self.resolve_struct(context, id, module, errors)` returned n
nested_resolved(n, id, typ) ==
    IF n.s.status # "ok" THEN [s |-> n.s, typ |-> None]
    ELSE IF n.ret
    THEN [s   |-> Push(n.s, Error("RecursiveTypeDetected", typ.loc, "")),
          typ |-> None]
    ELSE IF At(n.s.typed.structs, id).location # DUMMY_LOCATION
    THEN [s   |-> n.s,
          typ |-> committed_type(At(n.s.typed.structs, id), typ.num_references)]
    \* unreachable!("struct should be resolved by here")
    ELSE [s |-> [n.s EXCEPT !.status = "panic"], typ |-> None]

\* { let typechecked_struct = &self.structs.read()[id]; .. }: the guard lives
\* to the end of the block
block_left(s) == release(acquire(s, "typed.structs.read"), "typed.structs.read")

\* let module = context.structs.read()[id].module_id: the guard is a
\* temporary of the statement
module_read(s) == release(acquire(s, "context.structs.read"), "context.structs.read")

\* the ModuleScopeValue::Struct(id) the path of the type names
struct_named(s, id, typ) ==
    IF At(s.typed.structs, id).location # DUMMY_LOCATION
    THEN [s   |-> release(acquire(s, "typed.structs.read"), "typed.structs.read"),
          typ |-> committed_type(At(s.typed.structs, id), typ.num_references)]
    ELSE nested_resolved(
             resolve_struct(entered(module_read(block_left(s))), id,
                            At(s.ctx.structs, id).module_id),
             id, typ)

\* after `resolve_import(&context, module, &path, loc, &mut Vec::new())`
\* returned r
path_resolved(s, r, typ) ==
    IF r.tag = "Err"
    THEN [s   |-> Push(s, Error("UnboundIdent", typ.loc,
                                typ.entries[Len(typ.entries)].name)),
          typ |-> None]
    ELSE IF r.tag # "Ok" THEN [s |-> [s EXCEPT !.status = "panic"], typ |-> None]
    ELSE IF r.value.kind # "Struct"
    THEN [s   |-> Push(s, Error("MismatchingScopeType", typ.loc, r.value.kind)),
          typ |-> None]
    ELSE struct_named(s, r.value.id, typ)

\* Some(Type::SizedArray { typ: Box::new(child?), .. })
child_resolved(c, typ) ==
    IF c.typ = None THEN c
    ELSE [s   |-> c.s,
          typ |-> Some(ArrayType(typ.kind, c.typ[1], typ.num_references,
                                 typ.number_elements))]

\* type_name.entries.iter().map(|v| v.0.clone()).collect()
path_of(typ) == [i \in 1..Len(typ.entries) |-> typ.entries[i].name]

\* type_resolution_resolve_type(typ, is_generic_name, module, context, errors):
\* typ is the Option<Type> returned
type_resolution_resolve_type(s, typ, generics, module) ==
    IF resolve_primitive_type(typ) # None
    THEN [s |-> s, typ |-> resolve_primitive_type(typ)]
    ELSE
    CASE typ.kind = "Reference" ->
            IF \E i \in 1..Len(typ.entries) : Len(typ.entries[i].generics) > 0
            THEN [s |-> s, typ |-> None]
            ELSE IF /\ Len(typ.entries) = 1
                    /\ find_generic(generics, typ.entries[1].name) # None
            THEN [s |-> s, typ |-> Some(GenericType(typ.entries[1].name, 0))]
            ELSE path_resolved(s,
                     resolve_import(s.ctx, module, path_of(typ), typ.loc, NewRun), typ)
      [] typ.kind \in {"UnsizedArray", "SizedArray"} ->
            child_resolved(type_resolution_resolve_type(s, typ.child, generics, module), typ)
      \* DynReference: todo!(); Void and Never: unreachable!()
      [] OTHER -> [s |-> [s EXCEPT !.status = "panic"], typ |-> None]

\* if let Some(typ) = .. { typed_struct.elements.push((element.0, typ)) }
element_resolved(r, elements, typed_struct, module_id) ==
    resolve_elements(r.s, Tail(elements),
        IF r.typ # None /\ r.s.status = "ok"
        THEN [typed_struct EXCEPT !.elements =
                Append(@, <<Head(elements)[1],
                            element_type(r.typ[1], typed_struct.generics)>>)]
        ELSE typed_struct,
        module_id)

\* for element in elements { .. }
resolve_elements(s, elements, typed_struct, module_id) ==
    IF elements = <<>> \/ s.status # "ok" THEN [s |-> s, typed_struct |-> typed_struct]
    ELSE element_resolved(
             type_resolution_resolve_type(s, Head(elements)[2], typed_struct.generics,
                                          module_id),
             elements, typed_struct, module_id)

\* mutant of the commit: the typed slot is never written
elements_resolved_dropped(r, id) == [s |-> r.s, ret |-> FALSE]

\* self.structs.write()[id] = typed_struct; false
elements_resolved(r, id) ==
    IF r.s.status # "ok" THEN [s |-> r.s, ret |-> FALSE]
    ELSE [s |-> [r.s EXCEPT !.typed.structs[id + 1] = r.typed_struct], ret |-> FALSE]

\* mutant of drop(writer): the write guard lives to the end of resolve_struct
drop_writer_kept(s) == s

\* drop(writer)
drop_writer(s) == release(s, "context.structs.write")

\* the TypedStruct built from the untyped struct and its resolved generics,
\* the untyped location replaced by DUMMY_LOCATION, and the element loop
generics_resolved(gen, untyped, id, module_id) ==
    IF gen.s.status # "ok" THEN [s |-> gen.s, ret |-> FALSE]
    ELSE elements_resolved(
             resolve_elements(
                 drop_writer([gen.s EXCEPT !.ctx.structs[id + 1].location = DUMMY_LOCATION]),
                 untyped.elements,
                 [ name        |-> untyped.name,
                   location    |-> untyped.location,
                   elements    |-> <<>>,
                   global_impl |-> untyped.global_impl,
                   annotations |-> untyped.annotations,
                   module_id   |-> module_id,
                   id          |-> id,
                   generics    |-> gen.generics,
                   trait_impl  |-> EmptyScope ],
                 module_id),
             id)

\* std::mem::take of global_impl, annotations and elements
taken(s, id) ==
    [s EXCEPT !.ctx.structs[id + 1].global_impl = EmptyScope,
              !.ctx.structs[id + 1].annotations = "",
              !.ctx.structs[id + 1].elements = <<>>]

\* resolve_struct(context, id, module_id, errors): ret is the bool returned,
\* "a recursive field was detected"
resolve_struct(s, id, module_id) ==
    IF At(s.typed.structs, id).location # DUMMY_LOCATION THEN [s |-> s, ret |-> FALSE]
    ELSE IF is_in_progress(At(s.ctx.structs, id))
    THEN [s   |-> release(acquire(s, "context.structs.write"), "context.structs.write"),
          ret |-> TRUE]
    ELSE generics_resolved(
             resolve_generics(taken(acquire(s, "context.structs.write"), id), module_id,
                              At(s.ctx.structs, id).generics, <<>>),
             At(s.ctx.structs, id), id, module_id)

(***************************************************************************)
(* Import resolution: the module contexts and the calls                    *)
(***************************************************************************)

\* number of modules of a context
NumModules == 3

\* longest path handed to resolve_import
MaxPathLen == 2

ModuleIds == 0..(NumModules - 1)

\* the one name a module binds, and a second one for aliases and members
ImpNames == {"x", "y"}


\* an import declaration: imports[name] = (location, module, path)
Import(location, target, path) == [location |-> location, module |-> target, path |-> path]

\* what a module may bind "x" to: nothing, an own struct or function (scope),
\* an item import `x` from any module, or an import of a whole module
Bindings ==
    {[table |-> "none"]}
    \cup {[table |-> "scope", kind |-> k] : k \in {"Struct", "Function"}}
    \cup {[table |-> "imports", module |-> t, path |-> p] :
            t \in ModuleIds, p \in {<<"x">>, <<>>}}

\* the exports map of a module: nothing, x as itself, or x under the name y
ExportMaps == {EmptyScope, [n \in {"x"} |-> Some("x")], [n \in {"y"} |-> Some("x")]}

\* module i as an UntypedModule { scope, exports, imports }
UntypedModule(i, binding, exports) ==
    [ scope   |-> IF binding.table = "scope"
                  THEN [n \in {"x"} |-> Some(Value(binding.kind, i))] ELSE EmptyScope,
      exports |-> exports,
      imports |-> IF binding.table = "imports"
                  THEN [n \in {"x"} |->
                          Some(Import(Loc(i + 1, 1), binding.module, binding.path))]
                  ELSE EmptyScope ]

\* the untyped struct of module i: its one method is y
ImportStruct(i) ==
    [ name        |-> "x",
      location    |-> Loc(i + 1, 1),
      elements    |-> <<>>,
      global_impl |-> [n \in {"y"} |-> Some(i)],
      annotations |-> "annotations",
      generics    |-> <<>>,
      module_id   |-> i ]

UntypedFunction(i) == [name |-> "y", location |-> Loc(i + 1, 2), module_id |-> i]

\* a ModuleContext whose module i is modules[i + 1]
ImportContext(modules) ==
    [ modules            |-> modules,
      structs            |-> [i \in 1..NumModules |-> ImportStruct(i - 1)],
      traits             |-> <<>>,
      functions          |-> [i \in 1..NumModules |-> UntypedFunction(i - 1)],
      external_functions |-> <<>>,
      statics            |-> <<>> ]

\* the modules the imports of the modules in `seen` lead to, transitively
RECURSIVE Reached(_, _)
Reached(shape, seen) ==
    LET more == seen \cup {shape[j].binding.module :
                             j \in {k \in seen : shape[k].binding.table = "imports"}}
    IN  IF more = seen THEN seen ELSE Reached(shape, more)

\* the contexts resolve_import is run on: every module reachable from module 0
\* has any shape, a module nothing leads to is left empty
ImportShapes ==
    { shape \in [ModuleIds -> [binding : Bindings, exports : ExportMaps]] :
        \A i \in ModuleIds \ Reached(shape, {0}) :
            shape[i] = [binding |-> [table |-> "none"], exports |-> EmptyScope] }

ImportModules(shape) ==
    [i \in 1..NumModules |-> UntypedModule(i - 1, shape[i - 1].binding, shape[i - 1].exports)]

Paths == UNION {[1..n -> ImpNames] : n \in 1..MaxPathLen}

\* the location handed to a top-level resolve_import call
CallLoc == Loc(9, 9)

\* resolve_import(&context, module, path, location, &mut Vec::new()): one call
\* on a context
ResolveImport(module, path) ==
    /\ ret = NoCall
    /\ ret' = [ op     |-> "resolve_import",
                module |-> module,
                path   |-> path,
                res    |-> resolve_import(context, module, path, CallLoc, NewRun) ]
    /\ UNCHANGED <<parsed, context, typed, errors>>
    /\ UNCHANGED modVars

IdleModule ==
    /\ theModule = ModuleNew(EmptyMap)
    /\ lastResult = None

InitImport ==
    /\ \E shape \in ImportShapes : context = ImportContext(ImportModules(shape))
    /\ parsed = context
    /\ typed = None
    /\ errors = <<>>
    /\ ret = NoCall
    /\ IdleModule

NextImport == \E path \in Paths : ResolveImport(0, path)

SpecImport == InitImport /\ [][NextImport]_vars

(***************************************************************************)
(* The typed context: new, resolve_imports and resolve_struct on a program *)
(* of two modules.  Module 0 declares the structs and imports x and p from *)
(* module 1; module 1 declares the functions x and p and exports x only.   *)
(***************************************************************************)

\* number of structs module 0 declares
NumStructs == 2

\* number of fields the structs have together
MaxTotalFields == 2

StructIds == 0..(NumStructs - 1)

StructName(i) == <<"A", "B", "C", "D", "E", "F">>[i + 1]

\* the location of struct i, and of the type of its k-th field
StructLoc(i) == Loc(i + 1, 0)
FieldLoc(i, k) == Loc(i + 1, k)

Min(a, b) == IF a <= b THEN a ELSE b

\* the types a field of struct i is declared with: i32, a struct by value or
\* behind one reference, or a by-value array of struct 0.  Structs are
\* numbered in the order they are first mentioned.
FieldShapes(i) ==
    {[shape |-> "i32", target |-> 0, refs |-> 0], [shape |-> "array", target |-> 0, refs |-> 0]}
    \cup {[shape |-> "struct", target |-> j, refs |-> r] :
            j \in 0..Min(i + 1, NumStructs - 1), r \in {0, 1}}

\* the TypeRef of the k-th field of struct i
FieldType(i, k, f) ==
    CASE f.shape = "i32" -> Reference(f.refs, <<Segment("i32")>>, FieldLoc(i, k))
      [] f.shape = "struct" ->
            Reference(f.refs, <<Segment(StructName(f.target))>>, FieldLoc(i, k))
      [] f.shape = "array" ->
            SizedArray(f.refs,
                       Reference(0, <<Segment(StructName(f.target))>>, FieldLoc(i, k)),
                       4, FieldLoc(i, k))

FieldName(k) == <<"f1", "f2", "f3", "f4", "f5", "f6">>[k]

\* the field lists of structs i, i + 1, ... with at most `budget` fields
RECURSIVE FieldLists(_, _)
FieldLists(i, budget) ==
    IF i >= NumStructs THEN {<<>>}
    ELSE UNION { { <<fs>> \o rest : fs \in [1..n -> FieldShapes(i)],
                                    rest \in FieldLists(i + 1, budget - n) } :
                 n \in 0..budget }

\* the untyped struct i with the fields fs
UntypedStruct(i, fs) ==
    [ name        |-> StructName(i),
      location    |-> StructLoc(i),
      elements    |-> [k \in 1..Len(fs) |-> <<FieldName(k), FieldType(i, k, fs[k])>>],
      global_impl |-> EmptyScope,
      annotations |-> "annotations",
      generics    |-> <<>>,
      module_id   |-> 0 ]

StructContext(fields) ==
    [ modules |->
        << [ scope   |-> [n \in {StructName(i) : i \in StructIds} |->
                            Some(Value("Struct", CHOOSE i \in StructIds : StructName(i) = n))],
             exports |-> EmptyScope,
             imports |-> [n \in {"x", "p"} |-> Some(Import(Loc(9, 1), 1, <<n>>))] ],
           [ scope   |-> [n \in {"x", "p"} |->
                            Some(Value("Function", IF n = "x" THEN 0 ELSE 1))],
             exports |-> [n \in {"x"} |-> Some("x")],
             imports |-> EmptyScope ] >>,
      structs            |-> [i \in 1..NumStructs |-> UntypedStruct(i - 1, fields[i])],
      traits             |-> <<>>,
      functions          |-> << [name |-> "x", location |-> Loc(8, 1), module_id |-> 1],
                                [name |-> "p", location |-> Loc(8, 2), module_id |-> 1] >>,
      external_functions |-> <<>>,
      statics            |-> <<>> ]

\* TypecheckingContext::new(context)
New ==
    /\ ret = NoCall
    /\ typed' = new(context)
    /\ ret' = [op |-> "new", id |-> 0, value |-> FALSE, locks |-> NoLocks]
    /\ UNCHANGED <<parsed, context, errors>>
    /\ UNCHANGED modVars

\* the state after resolve_imports returned r
ImportsResolved(r) ==
    /\ typed' = r.typed
    /\ errors' = errors \o r.errors

\* errors = typed.resolve_imports(context); `order` is the order the imports
\* of module 0, the one typed module, are visited in
ResolveImports(order) ==
    /\ ret.op = "new"
    /\ typed.status = "ok"
    /\ ImportsResolved(resolve_imports(context, typed, 0, <<order>>, <<>>))
    /\ ret' = [op |-> "resolve_imports", id |-> 0, value |-> FALSE, locks |-> NoLocks]
    /\ UNCHANGED <<parsed, context>>
    /\ UNCHANGED modVars

\* the state after resolve_struct(.., id, ..) returned r
StructResolved(r, id) ==
    /\ context' = r.s.ctx
    /\ typed' = [r.s.typed EXCEPT !.status = r.s.status]
    /\ errors' = r.s.errors
    /\ ret' = [op |-> "resolve_struct", id |-> id, value |-> r.ret, locks |-> r.s.locks]

\* typed.resolve_struct(context, id, module of the struct, &mut errors)
ResolveStruct(id) ==
    /\ ret.op \in {"resolve_imports", "resolve_struct"}
    /\ typed.status = "ok"
    /\ StructResolved(resolve_struct(Running(context, typed, errors), id,
                                     At(context.structs, id).module_id), id)
    /\ UNCHANGED parsed
    /\ UNCHANGED modVars

InitStruct ==
    /\ \E fields \in FieldLists(0, MaxTotalFields) : context = StructContext(fields)
    /\ parsed = context
    /\ typed = None
    /\ errors = <<>>
    /\ ret = NoCall
    /\ IdleModule

NextStruct ==
    \/ New
    \/ \E order \in Orders(DOMAIN At(context.modules, 0).imports) : ResolveImports(order)
    \/ \E id \in StructIds : ResolveStruct(id)

SpecStruct == InitStruct /\ [][NextStruct]_vars

(***************************************************************************)
(* Struct resolution: a struct with a generic parameter                    *)
(***************************************************************************)

\* most references a field type carries
MaxRefs == 2

\* most fields of the generic struct
MaxGenericFields == 2

\* the traits of the module, by id
TraitName(i) == <<"Display", "Debug">>[i + 1]

\* the bounds the generic parameter T is declared with: (path, location)
BoundLoc(j) == Loc(1, 10 + j)
Bound(j) == [entries |-> <<TraitName(j - 1)>>, loc |-> BoundLoc(j)]
\* a bound written as a path of two segments through the struct itself
MemberBound == [entries |-> <<"S", "m">>, loc |-> BoundLoc(3)]
BoundLists == {[j \in 1..n |-> Bound(j)] : n \in 0..2} \cup {<<MemberBound>>}

\* the types a field of the generic struct is declared with: T behind refs
\* references, an array of T, i32, or S<i32>
GenericFieldShapes ==
    {[shape |-> "T", refs |-> r] : r \in 0..MaxRefs}
    \cup {[shape |-> "array", refs |-> 1], [shape |-> "i32", refs |-> 0],
          [shape |-> "S<i32>", refs |-> 0]}

GenericFieldType(k, f) ==
    CASE f.shape = "T"   -> Reference(f.refs, <<Segment("T")>>, FieldLoc(0, k))
      [] f.shape = "i32" -> Reference(f.refs, <<Segment("i32")>>, FieldLoc(0, k))
      [] f.shape = "S<i32>" ->
            Reference(f.refs,
                      <<[name     |-> "S",
                         generics |-> <<Reference(0, <<Segment("i32")>>, FieldLoc(0, k))>>]>>,
                      FieldLoc(0, k))
      [] f.shape = "array" ->
            SizedArray(0, Reference(f.refs, <<Segment("T")>>, FieldLoc(0, k)),
                       4, FieldLoc(0, k))

GenericFieldLists == UNION {[1..n -> GenericFieldShapes] : n \in 1..MaxGenericFields}

\* struct S<T: bounds> { f1: .., f2: .. } in a module that declares the traits
GenericContext(bounds, fs) ==
    [ modules |->
        << [ scope   |-> [n \in {"S", TraitName(0), TraitName(1)} |->
                            IF n = "S" THEN Some(Value("Struct", 0))
                            ELSE Some(Value("Trait",
                                        CHOOSE i \in 0..1 : TraitName(i) = n))],
             exports |-> EmptyScope,
             imports |-> EmptyScope ] >>,
      structs |->
        << [ name        |-> "S",
             location    |-> StructLoc(0),
             elements    |-> [k \in 1..Len(fs) |->
                                <<FieldName(k), GenericFieldType(k, fs[k])>>],
             global_impl |-> EmptyScope,
             annotations |-> "annotations",
             generics    |-> <<[name |-> "T", bounds |-> bounds]>>,
             module_id   |-> 0 ] >>,
      traits             |-> [i \in 1..2 |->
                                [name |-> TraitName(i - 1), location |-> Loc(7, i),
                                 module_id |-> 0]],
      functions          |-> <<>>,
      external_functions |-> <<>>,
      statics            |-> <<>> ]

InitGeneric ==
    /\ \E bounds \in BoundLists : \E fs \in GenericFieldLists :
          context = GenericContext(bounds, fs)
    /\ parsed = context
    /\ typed = None
    /\ errors = <<>>
    /\ ret = NoCall
    /\ IdleModule

NextGeneric ==
    \/ New
    \/ \E order \in Orders(DOMAIN At(context.modules, 0).imports) : ResolveImports(order)
    \/ ResolveStruct(0)

SpecGeneric == InitGeneric /\ [][NextGeneric]_vars

(***************************************************************************)
(* typed_resolve_import and resolve_type: name resolution on the typed     *)
(* context, after resolve_imports has filled the typed scopes              *)
(***************************************************************************)

\* typed_resolve_import(context, module, import, location, already_included):
\* one lookup in the typed module's scope, imports are not chased again
typed_resolve_import(t, module, import, location, g) ==
    IF Len(import) < 1 THEN RetOk(Value("Module", module), g)
    ELSE IF already_included_contains(g.visited, module, import[1])
    THEN RetErr(Error("CyclicDependency", location, ""), [g EXCEPT !.cyclic = @ + 1])
    ELSE
    LET g2 == [g EXCEPT !.visited = Append(@, <<module, import[1]>>)] IN
    \* reader[module] on the typed module table
    IF module >= Len(t.modules) THEN RetPanic("index out of bounds", g2)
    ELSE
    LET reader == At(t.modules, module)
        found  == export_ident(reader.exports, import[1], g2.visited)
    IN  IF found = None
        THEN RetErr(Error("ExportNotFound", location, import[1]), g2)
        ELSE IF Get(reader.scope, found[1]) # None
        THEN LET value == Get(reader.scope, found[1])[1]
             IN  IF Len(import) < 2 THEN RetOk(value, g2)
                 ELSE CASE value.kind = "Struct" ->
                             LET fn == Get(At(t.structs, value.id).global_impl, import[2])
                             IN  IF fn # None
                                 THEN IF Len(import) < 3
                                      THEN RetOk(Value("Function", fn[1]), g2)
                                      ELSE RetErr(Error("ExportNotFound", location,
                                                        import[3]), g2)
                                 ELSE RetErr(Error("ExportNotFound",
                                                   At(t.structs, value.id).location,
                                                   import[2]), g2)
                        \* unreachable!(): all modules must have been imports
                        [] value.kind = "Module" -> RetPanic("unreachable", g2)
                        [] OTHER ->
                             RetErr(Error("ExportNotFound", location, import[2]), g2)
        ELSE RetErr(Error("ExportNotFound", location, import[1]), g2)

\* Result<Type, TypecheckingError>
TypeOk(typ) == [tag |-> "Ok", typ |-> Some(typ), error |-> NoError]
TypeErr(error) == [tag |-> "Err", typ |-> None, error |-> error]
TypePanic(what) == [tag |-> "Panic", typ |-> None, error |-> Error(what, DUMMY_LOCATION, "")]

\* match typed_resolve_import(..)? { Struct(id) => Ok(Type::Struct { .. }),
\* v => Err(MismatchingScopeType { .. }) }
type_named(t, r, typ) ==
    CASE r.tag = "Err" -> TypeErr(r.error)
      [] r.tag = "Ok" /\ r.value.kind = "Struct" ->
            TypeOk(StructType(r.value.id, At(t.structs, r.value.id).name,
                              typ.num_references))
      [] r.tag = "Ok" ->
            TypeErr(Error("MismatchingScopeType", typ.loc, r.value.kind))
      [] OTHER -> TypePanic(r.error.kind)

\* Ok(Type::SizedArray { typ: Box::new(child?), .. })
array_of(c, typ) ==
    IF c.tag # "Ok" THEN c
    ELSE TypeOk(ArrayType(typ.kind, c.typ[1], typ.num_references, typ.number_elements))

\* a segment before the last carries generic arguments
has_generics_before_last(entries) ==
    \E i \in 1..(Len(entries) - 1) : Len(entries[i].generics) > 0

\* for (_, generics) in type_name.entries.iter() { if generics.len() > 0 .. }
has_generics(entries) ==
    \E i \in 1..Len(entries) : Len(entries[i].generics) > 0

RECURSIVE resolve_type(_, _, _, _)

\* TypecheckingContext::resolve_type(module_id, typ, generics)
resolve_type(t, module_id, typ, generics) ==
    IF resolve_primitive_type(typ) # None THEN TypeOk(resolve_primitive_type(typ)[1])
    ELSE
    CASE typ.kind = "Reference" ->
            IF /\ Len(typ.entries) = 1
               /\ Len(typ.entries[1].generics) = 0
               /\ \E i \in 1..Len(generics) : generics[i] = typ.entries[1].name
            THEN TypeOk(GenericType(typ.entries[1].name, typ.num_references))
            ELSE IF has_generics(typ.entries)
            THEN TypeErr(Error("UnexpectedGenerics", typ.loc, ""))
            ELSE type_named(t,
                     typed_resolve_import(t, module_id, path_of(typ), typ.loc, NewRun), typ)
      [] typ.kind \in {"UnsizedArray", "SizedArray"} ->
            array_of(resolve_type(t, module_id, typ.child, generics), typ)
      \* DynReference: todo!()
      [] OTHER -> TypePanic("todo")

\* the names a type reference is written with: those the modules bind, and
\* the generic parameter in scope
TypeNames == ImpNames \cup {"T"}
GenericsInScope == <<"T">>

\* a path segment with its generic arguments: none, or <i32>
Segments ==
    {[name |-> n, generics |-> gs] :
        n \in TypeNames,
        gs \in {<<>>, <<Reference(0, <<Segment("i32")>>, CallLoc)>>}}

\* the nominal type references resolve_type is called with, and an array of one
TypeRefs ==
    {Reference(1, entries, CallLoc) :
        entries \in UNION {[1..n -> Segments] : n \in 1..MaxPathLen}}
    \cup {SizedArray(0, Reference(0, <<[name |-> "x", generics |-> gs]>>, CallLoc),
                     4, CallLoc) :
            gs \in {<<>>, <<Reference(0, <<Segment("i32")>>, CallLoc)>>}}

\* the contexts the typed lookups run on: those of resolve_import in which
\* only modules 0 and 1 are populated
TypedShapes ==
    { shape \in ImportShapes :
        \A i \in ModuleIds \ {0, 1} :
            shape[i] = [binding |-> [table |-> "none"], exports |-> EmptyScope] }

\* typed.resolve_type(module_id, typ, generics)
ResolveType(module_id, typ) ==
    /\ ret.op \in {"resolve_imports", "resolve_struct"}
    /\ typed.status = "ok"
    /\ ret' = [ op     |-> "resolve_type",
                module |-> module_id,
                typ    |-> typ,
                res    |-> resolve_type(typed, module_id, typ, GenericsInScope) ]
    /\ UNCHANGED <<parsed, context, typed, errors>>
    /\ UNCHANGED modVars

\* typed_resolve_import(&typed, module, path, location, &mut Vec::new())
TypedResolveImport(module, path) ==
    /\ ret.op \in {"resolve_imports", "resolve_struct"}
    /\ typed.status = "ok"
    /\ ret' = [ op     |-> "typed_resolve_import",
                module |-> module,
                path   |-> path,
                res    |-> typed_resolve_import(typed, module, path, CallLoc, NewRun) ]
    /\ UNCHANGED <<parsed, context, typed, errors>>
    /\ UNCHANGED modVars

InitTyped ==
    /\ \E shape \in TypedShapes : context = ImportContext(ImportModules(shape))
    /\ parsed = context
    /\ typed = None
    /\ errors = <<>>
    /\ ret = NoCall
    /\ IdleModule

NextTyped ==
    \/ New
    \/ \E order \in Orders(DOMAIN At(context.modules, 0).imports) : ResolveImports(order)
    \/ \E id \in {0, 1} : ResolveStruct(id)
    \/ \E typ \in TypeRefs : ResolveType(0, typ)
    \/ \E path \in Paths \cup {<<>>} : TypedResolveImport(0, path)

SpecTyped == InitTyped /\ [][NextTyped]_vars

(***************************************************************************)
(* Import resolution: properties                                           *)
(***************************************************************************)

Called(op) == ret.op = op

\* module i imports the item x from module t: imports[x] = (_, t, [x])
ImportsItem(ctx, i, t) ==
    /\ Get(At(ctx.modules, i).imports, "x") # None
    /\ Get(At(ctx.modules, i).imports, "x")[1].module = t
    /\ Get(At(ctx.modules, i).imports, "x")[1].path = <<"x">>

ImportsSomeItem(ctx, i) == \E t \in ModuleIds : ImportsItem(ctx, i, t)

ExportsX(ctx, i) == Get(At(ctx.modules, i).exports, "x") = Some("x")

\* the modules the chain of item imports of x that starts in module 0 visits
RECURSIVE ImportChain(_, _)
ImportChain(ctx, seen) ==
    LET more == seen \cup {t \in ModuleIds : \E i \in seen : ImportsItem(ctx, i, t)}
    IN  IF more = seen THEN seen ELSE ImportChain(ctx, more)

\* the chain of imports of x from module 0 never ends: every module on it
\* imports x from the next one, so it runs into a cycle
ImportCycle(ctx) == \A i \in ImportChain(ctx, {0}) : ImportsSomeItem(ctx, i)

\* ... and every module the chain crosses into exports x
ExportedCycle(ctx) ==
    /\ ImportCycle(ctx)
    /\ \A i \in ImportChain(ctx, {0}) \ {0} : ExportsX(ctx, i)

IsCyclicOnce(res) ==
    /\ res.tag = "Err"
    /\ res.error.kind = "CyclicDependency"
    /\ res.g.cyclic = 1

\* C5 as stated: whenever the imports of x from module 0 form a cycle,
\* resolve_import(0, [x]) returns CyclicDependency, raised exactly once.
C5_CycleReported ==
    (Called("resolve_import") /\ ret.path = <<"x">> /\ ImportCycle(context))
    => IsCyclicOnce(ret.res)

\* C5 amended: whenever the imports of x from module 0 form a cycle and every
\* module the chain crosses into exports x, resolve_import(0, [x]) returns
\* CyclicDependency, raised exactly once.
C5_ExportedCycleReported ==
    (Called("resolve_import") /\ ret.path = <<"x">> /\ ExportedCycle(context))
    => IsCyclicOnce(ret.res)

\* a cycle through all the modules was resolved and reported
C5_Witness ==
    /\ Called("resolve_import") /\ ret.path = <<"x">>
    /\ ExportedCycle(context)
    /\ ImportChain(context, {0}) = ModuleIds
    /\ IsCyclicOnce(ret.res)
    /\ Len(ret.res.g.visited) = NumModules

NoDuplicates(seq) == \A i, j \in 1..Len(seq) : seq[i] = seq[j] => i = j

\* C6: resolve_import terminates on every context and path: no call runs out
\* of the model's fuel, every pair pushed to the visited list is new, and the
\* call stack is never deeper than the number of pairs pushed plus one.
C6_Terminates ==
    Called("resolve_import") =>
        /\ ret.res.tag # "Diverged"
        /\ NoDuplicates(ret.res.g.visited)
        /\ \A i \in 1..Len(ret.res.g.visited) :
              ret.res.g.visited[i] \in ModuleIds \X ImpNames
        /\ ret.res.g.maxdepth <= Len(ret.res.g.visited) + 1
        /\ ret.res.g.maxdepth <= Cardinality(ModuleIds \X ImpNames) + 1

\* a call on a cyclic context that went through every module and returned
C6_Witness ==
    /\ Called("resolve_import")
    /\ ImportCycle(context)
    /\ ret.res.tag = "Err"
    /\ ret.res.g.maxdepth > NumModules
    /\ ret.res.g.calls > NumModules

\* A (module a) exports its struct x, B imports x from A, C (module 0) imports
\* x from B
ImportChainABC(ctx, a, b) ==
    /\ a # 0 /\ b # 0 /\ a # b
    /\ Get(At(ctx.modules, a).scope, "x") = Some(Value("Struct", a))
    /\ ExportsX(ctx, a)
    /\ ImportsItem(ctx, b, a)
    /\ ImportsItem(ctx, 0, b)

\* C7 as stated: with A exporting struct x, B importing x from A and C
\* importing x from B, resolve_import(C, [x]) returns Struct(id of A's x).
C7_ChainFollowed ==
    \A a, b \in ModuleIds :
        (Called("resolve_import") /\ ret.path = <<"x">> /\ ImportChainABC(context, a, b))
        => (ret.res.tag = "Ok" /\ ret.res.value = Value("Struct", a))

\* C7 amended: ... and B exporting x in its turn, resolve_import(C, [x])
\* returns Struct(id of A's x).
C7_ExportedChainFollowed ==
    \A a, b \in ModuleIds :
        (Called("resolve_import") /\ ret.path = <<"x">>
           /\ ImportChainABC(context, a, b) /\ ExportsX(context, b))
        => (ret.res.tag = "Ok" /\ ret.res.value = Value("Struct", a))

C7_Witness ==
    /\ Called("resolve_import") /\ ret.path = <<"x">>
    /\ ImportChainABC(context, 2, 1) /\ ExportsX(context, 1)
    /\ ret.res.tag = "Ok" /\ ret.res.value = Value("Struct", 2)
    /\ Len(ret.res.g.visited) = 3

\* name is bound neither in exports, nor in imports, nor in scope of module i
Unbound(ctx, i, name) ==
    /\ Get(At(ctx.modules, i).exports, name) = None
    /\ Get(At(ctx.modules, i).imports, name) = None
    /\ Get(At(ctx.modules, i).scope, name) = None

\* C9: resolve_import on a path whose first segment is bound neither in the
\* exports, nor in the imports, nor in the scope of the home module returns
\* ExportNotFound carrying that name, and ends in no other way.
C9_UnboundIsExportNotFound ==
    (Called("resolve_import") /\ Unbound(context, ret.module, ret.path[1]))
    => /\ ret.res.tag = "Err"
       /\ ret.res.error.kind = "ExportNotFound"
       /\ ret.res.error.name = ret.path[1]

(***************************************************************************)
(* Module assembly: properties                                             *)
(***************************************************************************)

\* the tables of the flat namespace that bind `key` in module m
BindingTables(m, key) ==
    { t \in {"imports", "functions", "structs", "static_values", "external_functions"} :
        m[t][key] # None }

\* key is bound as a top-level item (not merely imported)
BoundAsItem(m, key) == BindingTables(m, key) \ {"imports"} # {}

\* a statement that defines a well-formed named top-level item
IsItem(stmt) ==
    \/ stmt.kind \in {"Function", "ExternalFunction"} /\ stmt.name # None
    \/ stmt.kind = "Struct"
    \/ stmt.kind = "Var" /\ stmt.has_type /\ stmt.literal

ItemName(stmt) ==
    IF stmt.kind \in {"Function", "ExternalFunction"} THEN stmt.name[1] ELSE stmt.name

\* C3: after any sequence of push_statement / push_all calls no identifier is
\* bound in more than one of imports, functions, structs, static_values and
\* external_functions.
C3_FlatNamespace ==
    \A key \in ModNames : Cardinality(BindingTables(theModule, key)) <= 1

\* C4: pushing an item whose name another item of the module already has
\* yields IdentAlreadyDefined for that name, and afterwards neither of the two
\* items is in the module's tables.
C4_DuplicateRejected ==
    [][ \A stmt \in Statements :
          (PushStatement(stmt) /\ IsItem(stmt) /\ BoundAsItem(theModule, ItemName(stmt)))
          => /\ lastResult' = Err("IdentAlreadyDefined", Some(ItemName(stmt)))
             /\ ~BoundAsItem(theModule', ItemName(stmt)) ]_vars

(***************************************************************************)
(* The typed context: properties                                           *)
(***************************************************************************)

\* new has returned and no call has panicked or blocked since
Typechecking == ret.op \in {"new", "resolve_imports", "resolve_struct"}

\* C10: from the return of new onward every typed table has the length of
\* its untyped counterpart
C10_HandleStability ==
    Typechecking =>
        /\ Len(typed.modules) = Len(context.modules)
        /\ Len(typed.structs) = Len(context.structs)
        /\ Len(typed.traits) = Len(context.traits)
        /\ Len(typed.functions) = Len(context.functions)
        /\ Len(typed.external_functions) = Len(context.external_functions)
        /\ Len(typed.statics) = Len(context.statics)

\* module m of the typed context sees `name` through its import declaration
ImportedInto(m, name) ==
    /\ name \in DOMAIN At(context.modules, m).imports
    /\ Get(At(context.modules, m).scope, name) = None
    /\ Get(At(typed.modules, m).scope, name) # None

\* C8: a name module m sees through an import of a single name from another
\* module k is a name k exports
C8_ExportGating ==
    Typechecking =>
        \A m \in 0..(Len(typed.modules) - 1) :
            \A name \in DOMAIN At(context.modules, m).imports :
                LET imp == At(context.modules, m).imports[name][1]
                IN  (ImportedInto(m, name) /\ imp.module # m /\ Len(imp.path) = 1)
                        => imp.path[1] \in DOMAIN At(context.modules, imp.module).exports

\* the struct a declared type holds by value: the struct a plain path names
\* when the type has no reference, or the one an array without a reference
\* holds as its element; -1 when there is none
RECURSIVE HeldByValue(_)
HeldByValue(typ) ==
    IF typ.num_references # 0 \/ resolve_primitive_type(typ) # None THEN -1
    ELSE IF typ.kind = "Reference"
    THEN LET v == Get(At(parsed.modules, 0).scope, typ.entries[1].name)
         IN  IF Len(typ.entries) = 1 /\ typ.entries[1].generics = <<>> /\ v # None
                /\ v[1].kind = "Struct"
             THEN v[1].id ELSE -1
    ELSE HeldByValue(typ.child)

\* the struct a declared type names at all, by value or behind references
RECURSIVE Named(_)
Named(typ) ==
    IF resolve_primitive_type(typ) # None THEN -1
    ELSE IF typ.kind = "Reference"
    THEN LET v == Get(At(parsed.modules, 0).scope, typ.entries[1].name)
         IN  IF v # None /\ v[1].kind = "Struct" THEN v[1].id ELSE -1
    ELSE Named(typ.child)

Declared(i) == At(parsed.structs, i).elements

\* i holds j by value through one field; i mentions j in one field
Holds(i, j) == \E k \in 1..Len(Declared(i)) : HeldByValue(Declared(i)[k][2]) = j
Mentions(i, j) == \E k \in 1..Len(Declared(i)) : Named(Declared(i)[k][2]) = j

\* the structs the structs in `seen` hold by value, transitively
RECURSIVE HeldBy(_)
HeldBy(seen) ==
    LET more == seen \cup {j \in StructIds : \E i \in seen : Holds(i, j)}
    IN  IF more = seen THEN seen ELSE HeldBy(more)

\* the structs the structs in `seen` mention, transitively
RECURSIVE MentionedBy(_)
MentionedBy(seen) ==
    LET more == seen \cup {j \in StructIds : \E i \in seen : Mentions(i, j)}
    IN  IF more = seen THEN seen ELSE MentionedBy(more)

\* i contains itself by value; i reaches itself through its fields
ContainsItself(i) == \E j \in StructIds : Holds(i, j) /\ i \in HeldBy({j})
ReachesItself(i) == \E j \in StructIds : Mentions(i, j) /\ i \in MentionedBy({j})

\* the k-th field of struct s lies on a by-value cycle through struct i
OnCycleOf(i, s, k) ==
    LET j == HeldByValue(Declared(s)[k][2])
    IN  /\ j # -1
        /\ i \in HeldBy({j})
        /\ s \in HeldBy({i})

Committed(i) == At(typed.structs, i).location # DUMMY_LOCATION

\* the locations of the RecursiveTypeDetected errors reported so far
RecursiveAt ==
    {errors[n].location : n \in {m \in 1..Len(errors) : errors[m].kind = "RecursiveTypeDetected"}}

C1_ReferenceCycleAccepted ==
    (/\ ret.op = "resolve_struct"
     /\ \A i \in StructIds : ~ContainsItself(i) /\ Committed(i)
     /\ \E i \in StructIds : ReachesItself(i))
    => /\ errors = <<>>
       /\ \A i \in StructIds :
             Len(At(typed.structs, i).elements) = Len(Declared(i))

\* the typed slot i agrees with the struct i the parser produced
AgreesWithParsed(i) ==
    /\ At(typed.structs, i).location = At(parsed.structs, i).location
    /\ At(typed.structs, i).location # DUMMY_LOCATION
    /\ At(typed.structs, i).name = At(parsed.structs, i).name
    /\ At(typed.structs, i).id = i
    /\ At(typed.structs, i).module_id = At(parsed.structs, i).module_id

\* a call resolve_struct(i, _) is the step taken
CallsResolveStruct(i) == ret'.op = "resolve_struct" /\ ret'.id = i

\* C11: a returned resolve_struct(id, m) leaves the typed slot id with the
\* struct's real location, name, id and module_id; a call on a slot that is
\* committed returns false and changes no typed table, no untyped table and
\* not the error list
C11_CommittedAndStable ==
    [][\A i \in StructIds :
          CallsResolveStruct(i) =>
             /\ typed'.status = "ok"
             /\ AgreesWithParsed(i)'
             /\ Committed(i) =>
                   /\ ret'.value = FALSE
                   /\ typed' = typed
                   /\ context' = context
                   /\ errors' = errors]_vars

\* a call on a committed struct was made after errors had been appended
C11_Witness ==
    /\ ret.op = "resolve_struct"
    /\ ret.value = FALSE
    /\ \A i \in StructIds : Committed(i) /\ AgreesWithParsed(i)
    /\ Len(At(typed.structs, ret.id).elements) < Len(Declared(ret.id))
    /\ errors # <<>>

\* the errors the step taken has appended to the error list
Appended == SubSeq(errors', Len(errors) + 1, Len(errors'))

\* the step taken reported RecursiveTypeDetected at the k-th field of struct
\* i, a field that names struct i itself
SignalsOwnRecursion(i, k) ==
    /\ Named(Declared(i)[k][2]) = i
    /\ \E n \in 1..Len(Appended) :
          /\ Appended[n].kind = "RecursiveTypeDetected"
          /\ Appended[n].location = FieldLoc(i, k)

\* C17: a call resolve_struct(id, _) one of whose own fields signals
\* RecursiveTypeDetected for struct id returns true and leaves the typed slot
\* id uncommitted
C17_RecursionAbandons ==
    [][\A i \in StructIds :
          (/\ CallsResolveStruct(i)
           /\ ~Committed(i)
           /\ \E k \in 1..Len(Declared(i)) : SignalsOwnRecursion(i, k))
          => /\ ret'.value = TRUE
             /\ ~Committed(i)']_vars

\* the trait ids the bounds of the generic parameter `name` of struct i name
BoundsOf(i, name) ==
    LET generic == CHOOSE g \in {At(parsed.structs, i).generics[n] :
                                    n \in 1..Len(At(parsed.structs, i).generics)} :
                       g.name = name
    IN  [j \in 1..Len(generic.bounds) |->
            Get(At(parsed.modules, 0).scope, generic.bounds[j].entries[1])[1].id]

\* the k-th field of struct i is declared as references to the generic
\* parameter `name`
GenericField(i, k, name) ==
    /\ Declared(i)[k][2].kind = "Reference"
    /\ Len(Declared(i)[k][2].entries) = 1
    /\ Declared(i)[k][2].entries[1] = Segment(name)
    /\ \E n \in 1..Len(At(parsed.structs, i).generics) :
          At(parsed.structs, i).generics[n].name = name

\* the type the committed struct i has for the field of this name
TypeOfField(i, field) ==
    LET elements == At(typed.structs, i).elements
    IN  {elements[n][2] : n \in {m \in 1..Len(elements) : elements[m][1] = field}}

\* C18: a field of k references to the generic parameter T resolves to
\* Generic(T, k) when T has no bounds and to Trait { bounds of T, k, T }
\* otherwise
C18_GenericReferencesKept ==
    (ret.op = "resolve_struct" /\ typed.status = "ok" /\ Committed(ret.id)) =>
        \A k \in 1..Len(Declared(ret.id)) :
            GenericField(ret.id, k, "T") =>
                TypeOfField(ret.id, Declared(ret.id)[k][1]) =
                    { IF BoundsOf(ret.id, "T") = <<>>
                      THEN GenericType("T", Declared(ret.id)[k][2].num_references)
                      ELSE TraitType(BoundsOf(ret.id, "T"),
                                     Declared(ret.id)[k][2].num_references, "T") }

\* the type reference without the generic arguments of its last segment
WithoutLastGenerics(typ) ==
    [typ EXCEPT !.entries[Len(typ.entries)].generics = <<>>]

\* C19: resolve_type of a nominal reference returns UnexpectedGenerics
\* exactly when a segment other than the last carries generic arguments, and
\* a reference whose only generic arguments are on its last segment resolves
\* as the same path without them does
C19_OnlyInnerGenericsRejected ==
    (ret.op = "resolve_type" /\ ret.typ.kind = "Reference") =>
        /\ (ret.res.tag = "Err" /\ ret.res.error.kind = "UnexpectedGenerics")
              <=> has_generics_before_last(ret.typ.entries)
        /\ ~has_generics_before_last(ret.typ.entries)
              => ret.res = resolve_type(typed, ret.module, WithoutLastGenerics(ret.typ),
                                        GenericsInScope)

\* the outcome of a lookup: the value found, or the kind of the error
Outcome(r) == [tag |-> r.tag, value |-> r.value, kind |-> r.error.kind]

\* C20: once resolve_imports has run without errors, typed_resolve_import
\* returns for every path on which resolve_import returns on the untyped
\* context the value, or the kind of error, resolve_import returns
C20_TypedLookupAgrees ==
    (/\ ret.op = "typed_resolve_import"
     /\ errors = <<>>
     /\ resolve_import(context, ret.module, ret.path, CallLoc, NewRun).tag \in {"Ok", "Err"})
    =>
        Outcome(ret.res)
            = Outcome(resolve_import(context, ret.module, ret.path, CallLoc, NewRun))

\* C25: resolve_import returns CyclicDependency only for a pair that is
\* pending in an enclosing call of the same resolution, never for a pair
\* whose lookup has returned
C25_OnlyPendingPairsAreCycles ==
    ret.op = "resolve_import" => ret.res.g.stale = 0

\* C23: a resolve_struct call never requests a guard on the untyped struct
\* table while it holds the write guard on it, whatever the paths of the
\* generic bounds are and whatever they resolve to
C23_NoSelfBlocking ==
    ret.op = "resolve_struct" => typed.status # "deadlock"

\* the names of the fields the committed struct i keeps, in order
KeptNames(i) ==
    [n \in 1..Len(At(typed.structs, i).elements) |-> At(typed.structs, i).elements[n][1]]

\* the names of the fields struct i declares, in order
DeclaredNames(i) == [k \in 1..Len(Declared(i)) |-> Declared(i)[k][1]]

\* the declared fields of struct i that are kept, in declaration order
KeptOfDeclared(i) ==
    SelectSeq(DeclaredNames(i),
              LAMBDA name : \E n \in 1..Len(KeptNames(i)) : KeptNames(i)[n] = name)

\* an error located at the k-th field of struct i was reported
ErrorAtField(i, k) ==
    \E n \in 1..Len(errors) : errors[n].location = Declared(i)[k][2].loc

\* C22: a field is missing from the committed struct only if an error was
\* reported for it, and the fields kept are in declaration order
C22_DroppedFieldsAreReported ==
    (ret.op = "resolve_struct" /\ typed.status = "ok" /\ Committed(ret.id)) =>
        /\ KeptNames(ret.id) = KeptOfDeclared(ret.id)
        /\ \A k \in 1..Len(Declared(ret.id)) :
              (\A n \in 1..Len(KeptNames(ret.id)) :
                  KeptNames(ret.id)[n] # Declared(ret.id)[k][1])
              => ErrorAtField(ret.id, k)

\* the driver calls resolve_struct on the ids of `ids`, in this order
RECURSIVE resolve_all(_, _)
resolve_all(s, ids) ==
    IF ids = <<>> \/ s.status # "ok" THEN s
    ELSE resolve_all(
             resolve_struct(s, Head(ids), At(s.ctx.structs, Head(ids)).module_id).s,
             Tail(ids))

\* the outcome of resolving the structs of the parsed context in the order
\* of their ids, from the typed context as it was before the first call
InIdOrder ==
    resolve_all(Running(parsed, [typed EXCEPT !.structs = new(parsed).structs], <<>>),
                [n \in 1..NumStructs |-> n - 1])

\* the errors of a list that are located at a field of a struct
FieldErrors(errs) ==
    {errs[n] : n \in {m \in 1..Len(errs) :
                        \E i \in StructIds : \E k \in 1..Len(Declared(i)) :
                            errs[m].location = Declared(i)[k][2].loc}}

\* C24: once every struct is committed, the typed struct table and the set
\* of errors reported for fields are those of resolving the structs in the
\* order of their ids, whatever order resolve_struct was called in
C24_OrderIndependent ==
    (/\ ret.op = "resolve_struct"
     /\ typed.status = "ok"
     /\ \A i \in StructIds : Committed(i)
     /\ InIdOrder.status = "ok")
    => /\ typed.structs = InIdOrder.typed.structs
       /\ FieldErrors(errors) = FieldErrors(InIdOrder.errors)

\* C21: at every entry to resolve_struct made from
\* type_resolution_resolve_type the thread holds no guard on the typed nor on
\* the untyped struct table, and a returned call has released every guard
C21_NoGuardAtRecursion ==
    (ret.op = "resolve_struct" /\ typed.status = "ok") =>
        /\ ~ret.locks.guarded
        /\ ret.locks.held = <<>>

\* a call that entered resolve_struct for two other fields has returned
C21_Witness ==
    /\ ret.op = "resolve_struct"
    /\ typed.status = "ok"
    /\ ret.locks.nested >= 2
    /\ ~ret.locks.guarded

(***************************************************************************)
(* Module assembly: exports and batches                                    *)
(***************************************************************************)

\* the statements of a short program: those of the batches, and an export of b
ProgramStatements ==
    BatchStatements \cup {[kind |-> "Export", key |-> "b", exported_key |-> "a"]}

\* the calls that assemble a short program
NextProgram ==
    \/ \E stmt \in ProgramStatements : PushStatement(stmt)
    \/ \E batch \in Batches : PushAll(batch)

SpecProgram == InitModule /\ [][NextProgram]_vars

\* every value of the exports map of m is bound in one of the five tables
ExportsBound(m) ==
    \A n \in ModNames : m.exports[n] # None => BindingTables(m, m.exports[n][1]) # {}

\* C12: after every call each exported value is a name bound in the module,
\* and push_statement of an export whose source key is not bound returns
\* IdentNotDefined for that key and leaves the module as it was
C12_ExportsWellFormed ==
    [][ /\ ExportsBound(theModule')
        /\ \A stmt \in Statements :
              (/\ PushStatement(stmt)
               /\ stmt.kind = "Export"
               /\ BindingTables(theModule, stmt.key) = {})
              => /\ lastResult' = Err("IdentNotDefined", Some(stmt.key))
                 /\ theModule' = theModule ]_vars

\* the module exports a name and the last export was refused
C12_Witness ==
    /\ \E n \in ModNames : theModule.exports[n] # None
    /\ lastResult # None
    /\ ~lastResult.ok
    /\ "kind" \in DOMAIN lastResult
    /\ lastResult.kind = "IdentNotDefined"

\* the module after the first k statements of the batch were pushed one by
\* one, starting from m
RECURSIVE AfterPushes(_, _, _)
AfterPushes(m, batch, k) ==
    IF k = 0 THEN m
    ELSE push_statement(AfterPushes(m, batch, k - 1), batch[k]).m

\* what pushing the k-th statement of the batch on its own returns
ResultOf(m, batch, k) == push_statement(AfterPushes(m, batch, k - 1), batch[k]).res

\* the positions of the statements of the batch that fail
Failing(m, batch) == {k \in 1..Len(batch) : ~ResultOf(m, batch, k).ok}

\* the n-th failing position
NthFailing(m, batch, n) ==
    CHOOSE k \in Failing(m, batch) :
        Cardinality({j \in Failing(m, batch) : j <= k}) = n

\* C13: push_all pushes every statement of the batch in order whatever failed
\* before; it returns Ok iff none failed, otherwise the errors of the failing
\* statements, one each, in statement order; the module holds the effects of
\* all statements that succeeded
C13_PushAllAccumulates ==
    [][ \A batch \in Batches :
          PushAll(batch) =>
             /\ theModule' = AfterPushes(theModule, batch, Len(batch))
             /\ lastResult'.ok <=> Failing(theModule, batch) = {}
             /\ ~lastResult'.ok =>
                   /\ Len(lastResult'.errors) = Cardinality(Failing(theModule, batch))
                   /\ \A n \in 1..Len(lastResult'.errors) :
                         lastResult'.errors[n] =
                            ResultOf(theModule, batch, NthFailing(theModule, batch, n)) ]_vars

\* a batch returned one error and the function of its other statement is in
\* the module
C13_Witness ==
    /\ lastResult # None
    /\ ~lastResult.ok
    /\ "errors" \in DOMAIN lastResult
    /\ Len(lastResult.errors) = 1
    /\ lastResult.errors[1].kind = "NoCodeOutsideOfFunctions"
    /\ theModule.functions["a"] # None
    /\ Len(theModule.function_registry) = 1

\* the kinds of error push_statement returns
PushErrors ==
    {"AnonymousFunctionAtGlobalLevel", "IdentAlreadyDefined", "IdentNotDefined",
     "GlobalValueNoType", "GlobalValueNoLiteral", "NoCodeOutsideOfFunctions"}

\* the step taken is a push_statement call that returned an error
PushStatementFailed ==
    /\ "kind" \in DOMAIN lastResult'
    /\ lastResult'.kind \in PushErrors

\* C27: a push_statement call that returns an error, of whatever kind, leaves
\* structs, functions, external_functions, static_values, function_registry,
\* imports and exports as they were
C27_FailedPushChangesNothing ==
    [][PushStatementFailed => theModule' = theModule]_vars

\* a statement was refused for its name by a module that holds a struct and
\* a function
C27_Witness ==
    /\ "kind" \in DOMAIN lastResult
    /\ lastResult.kind = "IdentAlreadyDefined"
    /\ theModule.structs["a"] # None
    /\ theModule.structs["a"][1].global_impl = None
    /\ Len(theModule.function_registry) = 1

(***************************************************************************)
(* mira/src/target.rs.  A string is the sequence of its characters.        *)
(***************************************************************************)

Dash == "-"

Archs == {"X86_64", "X86"}
Oses == {"Freestanding", "Other", "Linux"}
Abis == {"None", "Gnu"}

\* str_enum! to_str of Arch, Os and Abi
ArchToStr(arch) ==
    CASE arch = "X86_64" -> <<"x", "8", "6", "_", "6", "4">>
      [] arch = "X86"    -> <<"x", "8", "6">>

OsToStr(os) ==
    CASE os = "Freestanding" -> <<"f", "r", "e", "e", "s", "t", "a", "n", "d", "i", "n", "g">>
      [] os = "Other"        -> <<"o", "t", "h", "e", "r">>
      [] os = "Linux"        -> <<"l", "i", "n", "u", "x">>

AbiToStr(abi) ==
    CASE abi = "None" -> <<"n", "o", "n", "e">>
      [] abi = "Gnu"  -> <<"g", "n", "u">>

\* str_enum! from_str: the tag whose literal the string is, or Err(())
ArchFromStr(str) ==
    IF \E arch \in Archs : ArchToStr(arch) = str
    THEN Some(CHOOSE arch \in Archs : ArchToStr(arch) = str) ELSE None

OsFromStr(str) ==
    IF \E os \in Oses : OsToStr(os) = str
    THEN Some(CHOOSE os \in Oses : OsToStr(os) = str) ELSE None

AbiFromStr(str) ==
    IF \E abi \in Abis : AbiToStr(abi) = str
    THEN Some(CHOOSE abi \in Abis : AbiToStr(abi) = str) ELSE None

\* Os::to_llvm, Arch::to_llvm, Abi::to_llvm
OsToLlvm(os) ==
    IF os \in {"Freestanding", "Other"}
    THEN <<"u", "n", "k", "n", "o", "w", "n">>
    ELSE <<"p", "c", "-", "l", "i", "n", "u", "x">>

ArchToLlvm(arch) == ArchToStr(arch)

AbiToLlvm(abi) == AbiToStr(abi)

\* Target { arch, os, abi }
Target(arch, os, abi) == [arch |-> arch, os |-> os, abi |-> abi]

Targets == [arch : Archs, os : Oses, abi : Abis]

\* mutant of Display: the abi is written always
TargetFmtWithAbi(target) ==
    ArchToStr(target.arch) \o <<Dash>> \o OsToStr(target.os)
        \o <<Dash>> \o AbiToStr(target.abi)

\* impl Display for Target
TargetFmt(target) ==
    ArchToStr(target.arch) \o <<Dash>> \o OsToStr(target.os)
        \o (IF target.abi # "None" THEN <<Dash>> \o AbiToStr(target.abi) ELSE <<>>)

\* mutant of to_llvm: the abi is left out when it is none, as Display does
TargetToLlvmShort(target) ==
    ArchToLlvm(target.arch) \o <<Dash>> \o OsToLlvm(target.os)
        \o (IF target.abi # "None" THEN <<Dash>> \o AbiToLlvm(target.abi) ELSE <<>>)

\* Target::to_llvm
TargetToLlvm(target) ==
    ArchToLlvm(target.arch) \o <<Dash>> \o OsToLlvm(target.os)
        \o <<Dash>> \o AbiToLlvm(target.abi)

\* s.split('-'): the pieces between the dashes, at least one
RECURSIVE Split(_, _)
Split(str, piece) ==
    IF str = <<>> THEN <<piece>>
    ELSE IF Head(str) = Dash THEN <<piece>> \o Split(Tail(str), <<>>)
    ELSE Split(Tail(str), Append(piece, Head(str)))

ParseOk(target) == [ok |-> TRUE, target |-> target, error |-> ""]
ParseErr(error) == [ok |-> FALSE, target |-> Target("", "", ""), error |-> error]

\* mutant of from_str: the number of parts is checked after the parts
TargetFromStrLateCount(str) ==
    LET iter == Split(str, <<>>) IN
    IF Len(iter) < 1 THEN ParseErr("MissingArch")
    ELSE IF Len(iter) < 2 THEN ParseErr("MissingOs")
    ELSE IF ArchFromStr(iter[1]) = None THEN ParseErr("InvalidArch")
    ELSE IF OsFromStr(iter[2]) = None THEN ParseErr("InvalidOs")
    ELSE IF Len(iter) > 2 /\ AbiFromStr(iter[3]) = None THEN ParseErr("InvalidAbi")
    ELSE IF Len(iter) > 3 THEN ParseErr("TooManyArguments")
    ELSE ParseOk(Target(ArchFromStr(iter[1])[1], OsFromStr(iter[2])[1],
                        IF Len(iter) > 2 THEN AbiFromStr(iter[3])[1] ELSE "None"))

\* impl FromStr for Target
TargetFromStr(str) ==
    LET iter == Split(str, <<>>) IN
    IF Len(iter) < 1 THEN ParseErr("MissingArch")
    ELSE IF Len(iter) < 2 THEN ParseErr("MissingOs")
    ELSE IF Len(iter) > 3 THEN ParseErr("TooManyArguments")
    ELSE IF ArchFromStr(iter[1]) = None THEN ParseErr("InvalidArch")
    ELSE IF OsFromStr(iter[2]) = None THEN ParseErr("InvalidOs")
    ELSE IF Len(iter) > 2 /\ AbiFromStr(iter[3]) = None THEN ParseErr("InvalidAbi")
    ELSE ParseOk(Target(ArchFromStr(iter[1])[1], OsFromStr(iter[2])[1],
                        IF Len(iter) > 2 THEN AbiFromStr(iter[3])[1] ELSE "None"))

\* most dash-separated parts an input of from_str has
MaxParts == 4

\* what stands between the dashes of an input: the literals of the enums, a
\* word that is none of them, and nothing
Words ==
    {ArchToStr(arch) : arch \in Archs} \cup {OsToStr(os) : os \in Oses}
    \cup {AbiToStr(abi) : abi \in Abis} \cup {<<"a", "r", "m">>, <<>>}

\* the parts joined by dashes
RECURSIVE Join(_)
Join(parts) ==
    IF Len(parts) = 1 THEN parts[1]
    ELSE parts[1] \o <<Dash>> \o Join(Tail(parts))

Inputs == {Join(parts) : parts \in UNION {[1..n -> Words] : n \in 1..MaxParts}}

NoTarget == Target("", "", "")
NoParse == ParseErr("")

\* target.to_string()
Fmt(target) ==
    /\ ret = NoCall
    /\ ret' = [op |-> "fmt", target |-> target, text |-> TargetFmt(target), res |-> NoParse]
    /\ UNCHANGED <<parsed, context, typed, errors>>
    /\ UNCHANGED modVars

\* target.to_llvm()
ToLlvm(target) ==
    /\ ret = NoCall
    /\ ret' = [op |-> "to_llvm", target |-> target, text |-> TargetToLlvm(target),
               res |-> NoParse]
    /\ UNCHANGED <<parsed, context, typed, errors>>
    /\ UNCHANGED modVars

\* Target::from_str(str)
FromStr(str) ==
    /\ ret' = [op |-> "from_str", target |-> NoTarget, text |-> str,
               res |-> TargetFromStr(str)]
    /\ UNCHANGED <<parsed, context, typed, errors>>
    /\ UNCHANGED modVars

\* from_str of an input, or of the string the last call produced
Parse ==
    \/ ret = NoCall /\ \E str \in Inputs : FromStr(str)
    \/ ret # NoCall /\ ret.op \in {"fmt", "to_llvm"} /\ FromStr(ret.text)

InitTarget ==
    /\ IdleModule
    /\ IdleTypecheck

NextTarget ==
    \/ \E target \in Targets : Fmt(target)
    \/ \E target \in Targets : ToLlvm(target)
    \/ Parse

SpecTarget == InitTarget /\ [][NextTarget]_vars

(***************************************************************************)
(* Targets: properties                                                     *)
(***************************************************************************)

\* the number of dashes of a string
RECURSIVE Dashes(_)
Dashes(str) ==
    IF str = <<>> THEN 0
    ELSE (IF Head(str) = Dash THEN 1 ELSE 0) + Dashes(Tail(str))

\* C14: the Display form of a target has one dash when the abi is none and
\* two otherwise, does not end in a dash, and parses to the target it is the
\* form of
C14_TargetRoundTrip ==
    /\ ret.op = "fmt" =>
          /\ Dashes(ret.text) = (IF ret.target.abi = "None" THEN 1 ELSE 2)
          /\ ret.text[Len(ret.text)] # Dash
    /\ \A target \in Targets :
          (ret.op = "from_str" /\ ret.text = TargetFmt(target))
             => ret.res = ParseOk(target)

\* the Display form of a target without abi was parsed
C14_Witness ==
    /\ ret.op = "from_str"
    /\ ret.text = <<"x", "8", "6", "-", "l", "i", "n", "u", "x">>
    /\ ret.res.ok
    /\ ret.res.target = Target("X86", "Linux", "None")

\* the literals of the three enums
ArchNames == {<<"x", "8", "6", "_", "6", "4">>, <<"x", "8", "6">>}
OsNames == {<<"f", "r", "e", "e", "s", "t", "a", "n", "d", "i", "n", "g">>,
            <<"o", "t", "h", "e", "r">>, <<"l", "i", "n", "u", "x">>}
AbiNames == {<<"n", "o", "n", "e">>, <<"g", "n", "u">>}

\* the error from_str is to return for these parts, "" when it is to succeed
ExpectedError(parts) ==
    IF Len(parts) > 3 THEN "TooManyArguments"
    ELSE IF parts[1] \notin ArchNames THEN "InvalidArch"
    ELSE IF parts[2] \notin OsNames THEN "InvalidOs"
    ELSE IF Len(parts) = 3 /\ parts[3] \notin AbiNames THEN "InvalidAbi"
    ELSE ""

\* the positions of the dashes of a string, and the n-th of them
DashesAt(str) == {i \in 1..Len(str) : str[i] = Dash}
NthDash(str, n) ==
    CHOOSE i \in DashesAt(str) : Cardinality({j \in DashesAt(str) : j <= i}) = n

\* the parts of a string: what stands before, between and after its dashes
PartsOf(str) ==
    LET count == Cardinality(DashesAt(str)) + 1
    IN  [k \in 1..count |->
            SubSeq(str,
                   IF k = 1 THEN 1 ELSE NthDash(str, k - 1) + 1,
                   IF k = count THEN Len(str) ELSE NthDash(str, k) - 1)]

\* C15: an input of more than three parts fails with TooManyArguments; one of
\* two or three parts fails with InvalidArch, else InvalidOs, else InvalidAbi
\* for the first unrecognized part, and succeeds otherwise, the abi being
\* none when absent
C15_TargetParsingErrors ==
    (ret.op = "from_str" /\ Len(PartsOf(ret.text)) >= 2) =>
        LET parts == PartsOf(ret.text)
        IN  /\ ret.res.error = ExpectedError(parts)
            /\ ret.res.ok <=> ExpectedError(parts) = ""
            /\ ret.res.ok =>
                  /\ ArchToStr(ret.res.target.arch) = parts[1]
                  /\ OsToStr(ret.res.target.os) = parts[2]
                  /\ IF Len(parts) = 3 THEN AbiToStr(ret.res.target.abi) = parts[3]
                     ELSE ret.res.target.abi = "None"

\* an input of four parts, the first of them no arch, was refused for its
\* length
C15_Witness ==
    /\ ret.op = "from_str"
    /\ ret.text = <<"a", "r", "m", "-", "l", "i", "n", "u", "x", "-", "g", "n", "u", "-">>
    /\ ret.res.error = "TooManyArguments"

\* C16: to_llvm writes the arch, a dash, `unknown` for freestanding and other
\* or `pc-linux` for linux, a dash, and the abi, also when the abi is none
C16_LlvmTriple ==
    ret.op = "to_llvm" =>
        LET arch == ArchToStr(ret.target.arch)
            abi  == AbiToStr(ret.target.abi)
            vendor == SubSeq(ret.text, Len(arch) + 2, Len(ret.text) - Len(abi) - 1)
        IN  /\ SubSeq(ret.text, 1, Len(arch) + 1) = arch \o <<Dash>>
            /\ SubSeq(ret.text, Len(ret.text) - Len(abi), Len(ret.text)) = <<Dash>> \o abi
            /\ vendor = IF ret.target.os = "Linux"
                        THEN <<"p", "c", "-", "l", "i", "n", "u", "x">>
                        ELSE <<"u", "n", "k", "n", "o", "w", "n">>
            /\ Dashes(ret.text) = (IF ret.target.os = "Linux" THEN 3 ELSE 2)

\* x86_64-linux gives x86_64-pc-linux-none
C16_Witness ==
    /\ ret.op = "to_llvm"
    /\ ret.target = Target("X86_64", "Linux", "None")
    /\ ret.text = <<"x", "8", "6", "_", "6", "4", "-", "p", "c", "-", "l", "i", "n", "u", "x",
                    "-", "n", "o", "n", "e">>

(***************************************************************************)
(* parser/types.rs: TypeRef::try_clone_deref.  num_references is a u8; a   *)
(* subtraction below zero panics in a build with overflow checks and wraps *)
(* in one without.                                                         *)
(***************************************************************************)

\* most references a parsed type is given
MaxDerefRefs == 3

\* u8::MAX + 1
U8 == 256

\* parser TypeRef: Reference { num_references, type_name, loc },
\* Void(loc, num_references), Never(loc), UnsizedArray and SizedArray
ParsedReference(num_references, type_name) ==
    [kind |-> "Reference", num_references |-> num_references, type_name |-> type_name,
     child |-> None, number_elements |-> 0]
ParsedVoid(num_references) ==
    [kind |-> "Void", num_references |-> num_references, type_name |-> "",
     child |-> None, number_elements |-> 0]
ParsedNever ==
    [kind |-> "Never", num_references |-> 0, type_name |-> "",
     child |-> None, number_elements |-> 0]
ParsedArray(kind, num_references, child, number_elements) ==
    [kind |-> kind, num_references |-> num_references, type_name |-> "",
     child |-> Some(child), number_elements |-> number_elements]

\* TypeRef::get_ref_count
get_ref_count(typ) == IF typ.kind = "Never" THEN 0 ELSE typ.num_references

\* TypeRef::can_deref
can_deref(typ) == get_ref_count(typ) > 0

DerefSome(typ) == [status |-> "ok", value |-> Some(typ)]
DerefNone == [status |-> "ok", value |-> None]
DerefPanic(what) == [status |-> what, value |-> None]

\* TypeRef::try_clone_deref; overflow_checks tells whether the build panics
\* on u8 underflow
try_clone_deref(typ, overflow_checks) ==
    IF get_ref_count(typ) > 0 THEN DerefNone
    ELSE IF typ.kind = "Never" THEN DerefPanic("unreachable")
    ELSE IF typ.num_references - 1 < 0 /\ overflow_checks
    THEN DerefPanic("attempt to subtract with overflow")
    ELSE DerefSome([typ EXCEPT !.num_references = (@ - 1) % U8])

\* the element types of the arrays
ParsedChildren == {ParsedReference(r, n) : r \in 0..1, n \in {"i32", "A"}}

\* the types try_clone_deref is called on
ParsedTypes ==
    {ParsedReference(r, n) : r \in 0..MaxDerefRefs, n \in {"i32", "A"}}
    \cup {ParsedVoid(r) : r \in 0..MaxDerefRefs}
    \cup {ParsedNever}
    \cup {ParsedArray("UnsizedArray", r, c, 0) : r \in 0..MaxDerefRefs, c \in ParsedChildren}
    \cup {ParsedArray("SizedArray", r, c, n) :
            r \in 0..MaxDerefRefs, c \in ParsedChildren, n \in {0, 4}}

\* typ.try_clone_deref()
TryCloneDeref(typ, overflow_checks) ==
    /\ ret' = [ op              |-> "try_clone_deref",
                typ             |-> typ,
                overflow_checks |-> overflow_checks,
                res             |-> try_clone_deref(typ, overflow_checks) ]
    /\ UNCHANGED <<parsed, context, typed, errors>>
    /\ UNCHANGED modVars

\* try_clone_deref of a parsed type, or of the type the last call returned
Deref ==
    \/ ret = NoCall /\ \E typ \in ParsedTypes : \E oc \in BOOLEAN : TryCloneDeref(typ, oc)
    \/ /\ ret # NoCall
       /\ ret.res.value # None
       /\ TryCloneDeref(ret.res.value[1], ret.overflow_checks)

InitDeref ==
    /\ IdleModule
    /\ IdleTypecheck

NextDeref == Deref

SpecDeref == InitDeref /\ [][NextDeref]_vars

\* C26: try_clone_deref returns, for a type with at least one reference, the
\* type with one reference less, and None for a type without references; it
\* never panics and never takes a reference count below zero
C26_DerefRemovesOneReference ==
    ret.op = "try_clone_deref" =>
        /\ ret.res.status = "ok"
        /\ ret.res.value =
              IF get_ref_count(ret.typ) >= 1
              THEN Some([ret.typ EXCEPT !.num_references = @ - 1])
              ELSE None

====
